---- MODULE Spec2Model ----
(***************************************************************************)
(* The LearningCard capture state machine of koala-sign-learn.             *)
(*                                                                         *)
(* Two revisions of the component are modelled side by side; `variant`     *)
(* selects one in the initial state and never changes:                     *)
(*   "A"  src/README.md 150-468  (camera preview started on mount,         *)
(*        resetState only clears the React state, stopCamera releases)     *)
(*   "B"  src/README.md 522-798  (camera acquired by startRecording,       *)
(*        resetState also stops the stream attached to the video element)  *)
(*                                                                         *)
(* The browser objects the handlers touch are part of the state: camera    *)
(* streams, pending getUserMedia promises, MediaRecorders with the         *)
(* countdown interval that starts them, and submissions (fetch + abort     *)
(* timer).  Every handler and every callback is one action: JavaScript     *)
(* runs each to completion, suspension happens only at await / timers.     *)
(***************************************************************************)
EXTENDS Integers, Sequences, FiniteSets

VARIABLES
    variant,        \* "A" or "B": which revision of LearningCard runs
    mounted,        \* the component is mounted (videoRef.current is set)
    wordIdx,        \* Learn.currentWordIndex (1-based index into words)
    feedback,       \* useState<FeedbackState>
    isRecording,    \* useState(false)
    videoFile,      \* useState<VideoFile | null>
    isReadyToSubmit,\* useState(false)
    countdown,      \* useState<number | null>; NoCountdown is null
    srcObject,      \* videoRef.current.srcObject: a stream id, NoStream is null
    mediaRecorderRef,\* mediaRecorderRef.current: a recorder index or NoRecorder
    chunksRef,      \* chunksRef.current: the recorder index of each pushed chunk
    live,           \* ids of the MediaStreams whose tracks are not stopped
    pending,        \* pending getUserMedia promises, by continuation, and
                    \* the pending warm-up request (wake)
    recorders,      \* the MediaRecorders (each with its countdown interval)
    submissions,    \* the runInference calls suspended at an await
    dialogOpen,     \* the file picker opened by "Upload Video" is showing
    lastOp,         \* name of the handler or callback that ran last
    lastError,      \* the toast.error notice that handler raised, or "none"
    learn,          \* the Learn page on its own: word list and index
    server          \* the /predict service: the request it is working on

vars == <<variant, mounted, wordIdx, feedback, isRecording, videoFile,
          isReadyToSubmit, countdown, srcObject, mediaRecorderRef, chunksRef,
          live, pending, recorders, submissions, dialogOpen, lastOp,
          lastError, learn, server>>

----------------------------------------------------------------------------
(* Bounds of the model *)

\* Objects that no reference reaches any more (a finished recorder, a
\* stopped stream nobody holds, a settled submission) leave the state and
\* their ids are reused, so the bounds are on what exists at one time.
MaxStreams == 2     \* streams live, held or being acquired at one time
MaxRecorders == 2   \* MediaRecorders not yet finished at one time
MaxInFlight == 1    \* submissions not yet settled at one time

----------------------------------------------------------------------------
(* Program constants and null values *)

CountdownStart == 3
NoCountdown == 0
NoStream == 0
NoRecorder == 0

NoVideo == [kind |-> "none", by |-> 0, chunks |-> <<>>]
UploadedFile == [kind |-> "upload", by |-> 0, chunks |-> <<>>]
RecordedBlob(i, chunks) == [kind |-> "recorded", by |-> i, chunks |-> chunks]

\* A recorder slot / submission slot holding no object.
FreeRecorder == [stream |-> 0, count |-> 0, rstate |-> "free"]
FreeSubmission == [word |-> 0, stage |-> "free", timer |-> FALSE]

\* The words the Learn page iterates over (a sub-list of Learn.words).
words == <<"hi", "meat">>

\* Learn.words in full, in the two revisions of Learn.tsx.
LearnWords1 ==
    <<"hi", "meat", "me", "see", "name", "thank", "equal", "sorry",
      "age", "how many", "day", "good, nice", "number", "please?",
      "study", "human", "now", "education", "test", "yet", "finally",
      "dinner", "experience", "invite", "food", "want", "good", "care">>

LearnWords2 ==
    <<"hi", "what", "meat", "bi bim rice", "glad", "hobby", "me", "movie",
      "face", "see", "name", "read", "thank", "equal", "sorry", "eat",
      "fine", "do effort", "next", "age", "again", "how many", "day",
      "good, nice", "when", "we", "subway", "be friendly", "bus", "ride",
      "cell phone", "where", "number", "location", "guide",
      "responsibility", "who", "arrive", "family", "time", "introduction",
      "recieve", "please?", "walk", "parents", "10 minutes", "sister",
      "study", "human", "now", "special", "yesterday", "education", "test",
      "end", "you", "worried_about", "marry", "effort", "no", "yet",
      "finally", "born", "success", "favor", "Seoul", "dinner",
      "experience", "invite", "food", "want", "visit", "one hour", "far",
      "good", "care">>

LearnWords(rev) == IF rev = 1 THEN LearnWords1 ELSE LearnWords2

\* The word -> class id tables as lists of <<word, id>> in source order.
WORD_TO_ID_MAP_A ==
    << <<"hi", "1">>, <<"meet", "3">>, <<"me", "7">>,
       <<"see", "10">>, <<"name", "11">>, <<"thank", "13">>,
       <<"equal", "14">>, <<"sorry", "15">>, <<"age", "20">>,
       <<"day", "23">>, <<"please?", "43">>, <<"study", "48">>,
       <<"human", "49">>, <<"now", "50">>, <<"test", "54">>,
       <<"yet", "62">>, <<"finally", "63">>, <<"dinner", "68">>,
       <<"experience", "69">>, <<"invite", "70">>, <<"food", "71">>,
       <<"want", "72">>, <<"good", "76">>, <<"care", "77">> >>

\* The table of revision B with "meat" given the id of "hi".
WORD_TO_ID_MAP_B_SharedId ==
    << <<"hi", "1">>, <<"meat", "1">>, <<"me", "7">>,
       <<"see", "10">>, <<"name", "11">>, <<"thank", "13">>,
       <<"equal", "14">>, <<"sorry", "15">>, <<"age", "20">>,
       <<"how many", "22">>, <<"day", "23">>, <<"good, nice", "24">>,
       <<"number", "33">>, <<"please?", "43">>, <<"study", "48">>,
       <<"human", "49">>, <<"now", "50">>, <<"education", "53">>,
       <<"test", "54">>, <<"yet", "62">>, <<"finally", "63">>,
       <<"dinner", "68">>, <<"experience", "69">>, <<"invite", "70">>,
       <<"food", "71">>, <<"want", "72">>, <<"good", "76">>,
       <<"care", "77">> >>

WORD_TO_ID_MAP_B ==
    << <<"hi", "1">>, <<"meat", "3">>, <<"me", "7">>,
       <<"see", "10">>, <<"name", "11">>, <<"thank", "13">>,
       <<"equal", "14">>, <<"sorry", "15">>, <<"age", "20">>,
       <<"how many", "22">>, <<"day", "23">>, <<"good, nice", "24">>,
       <<"number", "33">>, <<"please?", "43">>, <<"study", "48">>,
       <<"human", "49">>, <<"now", "50">>, <<"education", "53">>,
       <<"test", "54">>, <<"yet", "62">>, <<"finally", "63">>,
       <<"dinner", "68">>, <<"experience", "69">>, <<"invite", "70">>,
       <<"food", "71">>, <<"want", "72">>, <<"good", "76">>,
       <<"care", "77">> >>

\* table[key] of a JavaScript object literal: the value of the last entry
\* with that key; "" stands for undefined.
Lookup(table, key) ==
    IF \E k \in 1..Len(table) : table[k][1] = key
    THEN table[CHOOSE k \in 1..Len(table) :
                   /\ table[k][1] = key
                   /\ \A j \in (k + 1)..Len(table) : table[j][1] # key][2]
    ELSE ""

\* Object.fromEntries(Object.entries(table).map(([word, id]) => [id, word]))
\* as a list of <<id, word>>; a later entry with the same id replaces the
\* earlier one when the view is read.
ID_TO_WORD_MAP(table) == [k \in 1..Len(table) |-> <<table[k][2], table[k][1]>>]

\* WORD_TO_ID_MAP[word.toLowerCase()] (the words of Learn are lower case).
WordToIdA(w) == Lookup(WORD_TO_ID_MAP_A, w)

WordToIdB(w) == Lookup(WORD_TO_ID_MAP_B, w)

WordToId(w) == IF variant = "A" THEN WordToIdA(w) ELSE WordToIdB(w)

\* The table of the running revision.
WORD_TO_ID_MAP ==
    IF variant = "A" THEN WORD_TO_ID_MAP_A ELSE WORD_TO_ID_MAP_B

word == words[wordIdx]

\* String(result.predicted_class) for the responses the model draws from.
PredictedLabels == {"1", "3", "11", "01"}

----------------------------------------------------------------------------
(* The mutable part of the program as one record, so that a handler is a   *)
(* function from state to state and handlers compose as the code calls     *)
(* them.                                                                   *)

\* Nothing written to the console by the handler that is running.
NoError == [name |-> "none", message |-> <<>>]

Cur == [feedback |-> feedback, isRecording |-> isRecording,
        videoFile |-> videoFile, isReadyToSubmit |-> isReadyToSubmit,
        countdown |-> countdown, srcObject |-> srcObject,
        mediaRecorderRef |-> mediaRecorderRef, chunksRef |-> chunksRef,
        live |-> live, pending |-> pending, recorders |-> recorders,
        submissions |-> submissions, error |-> "none",
        logged |-> NoError]

\* A handler or callback has run to completion with result s.  React drops
\* the state updates of an unmounted component (its state is gone: the
\* state variables keep the values Unmount leaves); refs and browser
\* objects change regardless.
Commit(s, op) ==
    /\ feedback' = IF mounted THEN s.feedback ELSE feedback
    /\ isRecording' = IF mounted THEN s.isRecording ELSE isRecording
    /\ videoFile' = IF mounted THEN s.videoFile ELSE videoFile
    /\ isReadyToSubmit' = IF mounted THEN s.isReadyToSubmit ELSE isReadyToSubmit
    /\ countdown' = IF mounted THEN s.countdown ELSE countdown
    /\ srcObject' = s.srcObject
    /\ mediaRecorderRef' = s.mediaRecorderRef
    /\ chunksRef' = s.chunksRef
    /\ live' = s.live
    /\ pending' = s.pending
    /\ recorders' = s.recorders
    /\ submissions' = s.submissions
    /\ lastOp' = IF mounted THEN op ELSE lastOp
    /\ lastError' = IF mounted THEN s.error ELSE lastError

----------------------------------------------------------------------------
(* Camera *)

\* stream.getTracks().forEach(track => track.stop())
StopTracks(s, id) == [s EXCEPT !.live = @ \ {id}]

\* The recorders that exist: created and not yet finished.
AliveRecorders(s) ==
    {i \in 1..MaxRecorders : s.recorders[i].rstate # "free"}

\* The stream ids something still refers to: live streams, the stream of
\* the video element, the streams recorders were built on.
UsedStreams(s) ==
    s.live \cup ({s.srcObject} \ {NoStream})
           \cup {s.recorders[i].stream : i \in AliveRecorders(s)}

\* The id of the MediaStream a resolving getUserMedia returns.
NewStream(s) ==
    CHOOSE id \in 1..MaxStreams :
        /\ id \notin UsedStreams(s)
        /\ \A j \in 1..(id - 1) : j \in UsedStreams(s)

\* navigator.mediaDevices.getUserMedia(...) is called: a promise is pending.
CallGetUserMedia(s, kind) == [s EXCEPT !.pending[kind] = @ + 1]

\* startCamera (A), from the call to the await.
startCamera(s) == CallGetUserMedia(s, "camera")

\* startCamera (A), after the await: attach the stream, or toast on failure.
startCameraResume(s, ok) ==
    IF ok
    THEN LET id == NewStream(s)
             t == [s EXCEPT !.live = @ \cup {id}]
         IN  IF mounted THEN [t EXCEPT !.srcObject = id] ELSE t
    ELSE [s EXCEPT !.error = "camera"]

\* A release in two steps: the first call stops the tracks and keeps the
\* stream attached, a later call detaches it.
stopCameraTwoStep(s) ==
    IF mounted /\ s.srcObject # NoStream
    THEN IF s.srcObject \in s.live
         THEN StopTracks(s, s.srcObject)
         ELSE [s EXCEPT !.srcObject = NoStream]
    ELSE s

\* stopCamera (A)
stopCamera(s) ==
    IF mounted /\ s.srcObject # NoStream
    THEN [StopTracks(s, s.srcObject) EXCEPT !.srcObject = NoStream]
    ELSE s

----------------------------------------------------------------------------
(* Warm-up of the backend *)

\* The outcomes of `await fetch(API_URL + "/")`: a 2xx response, a response
\* with another status, a rejection (no connection).
ProbeOutcomes == {"ok", "status", "rejected"}

\* A probe whose rejection is not caught and ends in the error state.
wakeUpBackendResumeUncaught(s, outcome) ==
    IF outcome = "rejected"
    THEN [s EXCEPT !.feedback = "incorrect", !.error = "prediction"]
    ELSE s

\* wakeUpBackend after the await: console.log on either path, nothing else.
wakeUpBackendResume(s, outcome) == s

----------------------------------------------------------------------------
(* resetState *)

\* The five setState calls with setIsReadyToSubmit(false) left out.
ClearReactStateKeepsReady(s) ==
    [s EXCEPT !.feedback = "idle", !.videoFile = NoVideo,
              !.isRecording = FALSE, !.countdown = NoCountdown]

\* The five setState calls with setCountdown(null) left out.
ClearReactStateKeepsCountdown(s) ==
    [s EXCEPT !.feedback = "idle", !.videoFile = NoVideo,
              !.isRecording = FALSE, !.isReadyToSubmit = FALSE]

\* setFeedback("idle") ... setCountdown(null)
ClearReactState(s) ==
    [s EXCEPT !.feedback = "idle", !.videoFile = NoVideo,
              !.isRecording = FALSE, !.isReadyToSubmit = FALSE,
              !.countdown = NoCountdown]

resetStateA(s) == ClearReactState(s)

resetStateB(s) ==
    LET r == ClearReactState(s)
    IN  IF mounted
        THEN [(IF r.srcObject # NoStream THEN StopTracks(r, r.srcObject) ELSE r)
                 EXCEPT !.srcObject = NoStream]
        ELSE r

resetState(s) == IF variant = "A" THEN resetStateA(s) ELSE resetStateB(s)

----------------------------------------------------------------------------
(* startRecording *)

\* startRecording, from the click to the first await.
startRecordingCall(s) ==
    LET r == [resetState(s) EXCEPT !.isReadyToSubmit = FALSE]
    IN  CallGetUserMedia(r, "record")

\* new MediaRecorder(stream) ... setCountdown(count); setInterval(...)
SetupRecorder(s, stream) ==
    LET r == CHOOSE i \in 1..MaxRecorders :
                 /\ i \notin AliveRecorders(s)
                 /\ \A j \in 1..(i - 1) : j \in AliveRecorders(s)
    IN  [s EXCEPT !.recorders[r] = [stream |-> stream,
                                    count |-> CountdownStart,
                                    rstate |-> "inactive"],
                  !.mediaRecorderRef = r,
                  !.chunksRef = <<>>,
                  !.countdown = CountdownStart]

\* startRecording (A) after `await startCamera()`: the recorder is built on
\* whatever stream the video element holds now; none throws into the catch.
startRecordingResumeA(s, ok) ==
    LET c == startCameraResume(s, ok)
        stream == IF mounted THEN c.srcObject ELSE NoStream
    IN  IF stream = NoStream
        THEN resetState([c EXCEPT !.error = "camera"])
        ELSE SetupRecorder(c, stream)

\* startRecording (B) after `await getUserMedia(...)`: a rejection goes to
\* the catch, a stream is attached and recorded.
startRecordingResumeB(s, ok) ==
    IF ok
    THEN LET id == NewStream(s)
             t == [s EXCEPT !.live = @ \cup {id}]
             a == IF mounted THEN [t EXCEPT !.srcObject = id] ELSE t
         IN  SetupRecorder(a, id)
    ELSE resetState([s EXCEPT !.error = "camera"])

startRecordingResume(s, ok) ==
    IF variant = "A" THEN startRecordingResumeA(s, ok)
                     ELSE startRecordingResumeB(s, ok)

\* The interval callback with the test `count > 1`: the recorder is
\* started one tick early.
intervalTickStartsEarly(s, i, throws) ==
    LET c == s.recorders[i].count - 1
        t == [s EXCEPT !.recorders[i].count = c]
    IN  IF c > 1
        THEN [t EXCEPT !.countdown = c]
        ELSE LET u == [t EXCEPT !.countdown = NoCountdown,
                                !.recorders[i].count = 0]
             IN  IF throws
                 THEN [u EXCEPT !.recorders[i] = FreeRecorder]
                 ELSE [u EXCEPT !.recorders[i].rstate = "recording",
                                !.isRecording = TRUE]

\* The interval callback of recorder i.  `throws` is the outcome of
\* mediaRecorder.start() on a stream whose tracks have all been stopped:
\* the browser either raises (the rest of the callback is skipped and the
\* recorder never runs) or starts a recorder that ends by itself.
intervalTick(s, i, throws) ==
    LET c == s.recorders[i].count - 1
        t == [s EXCEPT !.recorders[i].count = c]
    IN  IF c > 0
        THEN [t EXCEPT !.countdown = c]
        ELSE LET u == [t EXCEPT !.countdown = NoCountdown]
             IN  IF throws
                 THEN [u EXCEPT !.recorders[i] = FreeRecorder]
                 ELSE [u EXCEPT !.recorders[i].rstate = "recording",
                                !.isRecording = TRUE]

\* mediaRecorder.ondataavailable: e.data.size > 0 && chunksRef.current.push
ondataavailable(s, i, nonEmpty) ==
    IF nonEmpty THEN [s EXCEPT !.chunksRef = Append(@, i)] ELSE s

\* mediaRecorder.onstop of recorder i; the recorder is finished afterwards.
onstopA(s, i) ==
    stopCamera([s EXCEPT !.videoFile = RecordedBlob(i, s.chunksRef),
                         !.isRecording = FALSE,
                         !.isReadyToSubmit = TRUE,
                         !.recorders[i] = FreeRecorder])

onstopB(s, i) ==
    LET t == StopTracks([s EXCEPT !.videoFile = RecordedBlob(i, s.chunksRef),
                                  !.isRecording = FALSE,
                                  !.isReadyToSubmit = TRUE,
                                  !.recorders[i] = FreeRecorder],
                        s.recorders[i].stream)
    IN  IF mounted THEN [t EXCEPT !.srcObject = NoStream] ELSE t

onstop(s, i) == IF variant = "A" THEN onstopA(s, i) ELSE onstopB(s, i)

\* stopRecording: mediaRecorderRef.current?.stop().  stop() on a recorder
\* that is not recording changes nothing (it returns or raises).
stopRecording(s) ==
    LET r == s.mediaRecorderRef
    IN  IF r # NoRecorder /\ s.recorders[r].rstate = "recording"
        THEN [s EXCEPT !.recorders[r].rstate = "stopping"]
        ELSE s

----------------------------------------------------------------------------
(* handleFileUpload, handleRetry *)

\* handleFileUpload without the resetState() call.
handleFileUploadNoReset(s, hasFile) ==
    IF ~hasFile THEN s
    ELSE [s EXCEPT !.videoFile = UploadedFile, !.isReadyToSubmit = TRUE]

handleFileUpload(s, hasFile) ==
    IF ~hasFile THEN s
    ELSE [resetState(s) EXCEPT !.videoFile = UploadedFile,
                               !.isReadyToSubmit = TRUE]

handleRetryA(s) == startCamera(resetState(s))

handleRetryB(s) == resetState(s)

handleRetry(s) == IF variant = "A" THEN handleRetryA(s) ELSE handleRetryB(s)

----------------------------------------------------------------------------
(* runInference *)

\* runInference without the `if (!expectedClassLabel)` return: the request
\* is sent whatever the word.
runInferenceCallAlwaysSends(s) ==
    LET n == CHOOSE i \in 1..MaxInFlight :
                 /\ s.submissions[i].stage = "free"
                 /\ \A j \in 1..(i - 1) : s.submissions[j].stage # "free"
    IN  IF \A i \in 1..MaxInFlight : s.submissions[i].stage # "free"
        THEN [s EXCEPT !.feedback = "processing"]
        ELSE [s EXCEPT !.feedback = "processing",
                       !.submissions[n] = [word |-> wordIdx,
                                           stage |-> "fetch",
                                           timer |-> TRUE]]

\* runInference from the call to `await fetch`: an unmapped word ends it at
\* once, otherwise a request with its abort timer is in flight.
runInferenceCall(s) ==
    LET expected == WordToId(word)
        n == CHOOSE i \in 1..MaxInFlight :
                 /\ s.submissions[i].stage = "free"
                 /\ \A j \in 1..(i - 1) : s.submissions[j].stage # "free"
    IN  IF expected = ""
        THEN [s EXCEPT !.feedback = "incorrect", !.error = "unmapped"]
        ELSE [s EXCEPT !.feedback = "processing",
                       !.submissions[n] = [word |-> wordIdx,
                                           stage |-> "fetch",
                                           timer |-> TRUE]]

\* runInference of submission i has returned; its record goes once its
\* abort timer is cleared or has fired.
Settle(s, i) ==
    IF s.submissions[i].timer
    THEN [s EXCEPT !.submissions[i].stage = "settled"]
    ELSE [s EXCEPT !.submissions[i] = FreeSubmission]

\* The errors runInference can end with.  A message is the sequence of the
\* parts of its template.
AbortError == [name |-> "AbortError", message |-> <<"The operation was aborted.">>]
FetchFailed == [name |-> "TypeError", message |-> <<"Failed to fetch">>]

\* new Error(`Request failed: ${response.status}`)
RequestFailed(status) ==
    [name |-> "Error", message |-> <<"Request failed: ", status>>]

\* new Error(result.error || "Prediction failed.")
PredictionFailed(serverError) ==
    [name |-> "Error",
     message |-> <<IF serverError # "" THEN serverError
                                       ELSE "Prediction failed.">>]

\* The status codes a response is drawn from, and response.ok.
Statuses == {200, 404, 500}
ResponseOk(status) == status \in 200..299

\* The `error` field a body with success:false is drawn from ("" is absent).
ServerErrors == {"", "No hands detected"}

\* A catch block that reports the error and leaves feedback as it is.
runInferenceCatchKeepsFeedback(s, i, error) ==
    Settle([s EXCEPT !.logged = error,
                     !.error = IF error.name = "AbortError"
                               THEN "timeout" ELSE "prediction"], i)

\* The catch block of runInference for submission i: the error goes to the
\* console, feedback becomes incorrect, and the notice depends on error.name.
runInferenceCatch(s, i, error) ==
    Settle([s EXCEPT !.feedback = "incorrect",
                     !.logged = error,
                     !.error = IF error.name = "AbortError"
                               THEN "timeout" ELSE "prediction"], i)

\* The body read before the status is looked at.
fetchResolvedParsesFirst(s, i, status) ==
    LET t == [s EXCEPT !.submissions[i].timer = FALSE]
    IN  [t EXCEPT !.submissions[i].stage = "json"]

\* `await fetch` resolves with a response: clearTimeout, then the status.
fetchResolved(s, i, status) ==
    LET t == [s EXCEPT !.submissions[i].timer = FALSE]
    IN  IF ResponseOk(status)
        THEN [t EXCEPT !.submissions[i].stage = "json"]
        ELSE runInferenceCatch(t, i, RequestFailed(status))

\* `await fetch` rejects with a network error: clearTimeout is skipped.
fetchRejected(s, i) == runInferenceCatch(s, i, FetchFailed)

\* The abort reported like any other failure (no test of error.name).
abortTimerFiresUnnamed(s, i) ==
    LET t == [s EXCEPT !.submissions[i].timer = FALSE]
    IN  IF s.submissions[i].stage = "fetch"
        THEN runInferenceCatch(t, i, FetchFailed)
        ELSE Settle(t, i)

\* A timer whose callback ends the submission itself, whatever it waits on.
abortTimerFiresLate(s, i) ==
    runInferenceCatch([s EXCEPT !.submissions[i].timer = FALSE], i, AbortError)

\* The abort timer of submission i fires: controller.abort() rejects a fetch
\* that is still pending with an AbortError and is ignored otherwise.
abortTimerFires(s, i) ==
    LET t == [s EXCEPT !.submissions[i].timer = FALSE]
    IN  IF s.submissions[i].stage = "fetch"
        THEN runInferenceCatch(t, i, AbortError)
        ELSE Settle(t, i)

\* The comparison made on numbers instead of strings: "01" equals "1".
jsonResolvedNumeric(s, i, success, predicted, serverError) ==
    LET n == IF predicted = "01" THEN "1" ELSE predicted
    IN  IF ~success
        THEN runInferenceCatch(s, i, PredictionFailed(serverError))
        ELSE IF n = WordToId(words[s.submissions[i].word])
             THEN Settle([s EXCEPT !.feedback = "correct"], i)
             ELSE Settle([s EXCEPT !.feedback = "incorrect",
                                   !.error = "mismatch"], i)

\* `await response.json()` settles: a body that carries success:false (or
\* does not parse, which the catch block treats alike) throws, otherwise the
\* labels are compared as strings.  The expected label is the one of the
\* word runInference was called with.
jsonResolved(s, i, success, predicted, serverError) ==
    IF ~success
    THEN runInferenceCatch(s, i, PredictionFailed(serverError))
    ELSE IF predicted = WordToId(words[s.submissions[i].word])
         THEN Settle([s EXCEPT !.feedback = "correct"], i)
         ELSE Settle([s EXCEPT !.feedback = "incorrect",
                               !.error = "mismatch"], i)

----------------------------------------------------------------------------
(* What the render shows *)

isPredicting == feedback = "processing"
isIdle == feedback = "idle" /\ ~isRecording

\* The start controls rendered only while idle: {isIdle && !isReadyToSubmit}.
ShowsStartControlsIdleOnly == isIdle /\ ~isReadyToSubmit /\ ~isPredicting

\* {(isIdle || feedback === "incorrect") && !isReadyToSubmit && ...}: the
\* Upload Video and Start Recording buttons, each disabled={isPredicting}.
ShowsStartControls ==
    (isIdle \/ feedback = "incorrect") /\ ~isReadyToSubmit /\ ~isPredicting

\* {isRecording && <Button onClick={stopRecording}>}
ShowsStop == isRecording

\* {isReadyToSubmit && ... Re-record}; B also shows Try Again on "incorrect".
ShowsRetry ==
    isReadyToSubmit \/ (variant = "B" /\ feedback = "incorrect")

\* {isReadyToSubmit && ... Submit}: onClick runs videoFile && runInference.
ShowsSubmit == isReadyToSubmit

\* The user can click a control of the card or of the page.
CanClick == mounted /\ ~dialogOpen

\* The remainder operator of JavaScript: the result has the sign of a.
Rem(a, n) == IF a >= 0 THEN a % n ELSE -((-a) % n)

\* (prev) => (prev + 1) % words.length, for a list of n words.
NextIndex(prev, n) == Rem(prev + 1, n)

\* The updater of handlePrevious without `+ words.length`.
PreviousIndexNoBias(prev, n) == Rem(prev - 1, n)

\* (prev) => (prev - 1 + words.length) % words.length
PreviousIndex(prev, n) == Rem(prev - 1 + n, n)

\* Learn.handleNext / Learn.handlePrevious on the 0-based index wordIdx - 1.
handleNext(i) == NextIndex(i - 1, Len(words)) + 1
handlePrevious(i) == PreviousIndex(i - 1, Len(words)) + 1

\* The effect on [word]: resetState(), and in A startCamera().
wordEffect(s) ==
    IF variant = "A" THEN startCamera(resetState(s)) ELSE resetState(s)

----------------------------------------------------------------------------
(* Room for one more object of each kind (the model's bounds). *)

PendingCalls(s) == s.pending.camera + s.pending.record

RoomForStream(s) ==
    Cardinality(UsedStreams(s)) + PendingCalls(s) < MaxStreams

RoomForRecorder(s) ==
    Cardinality(AliveRecorders(s)) + s.pending.record < MaxRecorders

RoomForSubmission(s) ==
    \E i \in 1..MaxInFlight : s.submissions[i].stage = "free"

----------------------------------------------------------------------------
(* The Learn page and the service when they are not the subject *)

LearnIdle ==
    [rev |-> 0, currentWordIndex |-> 0, lastNav |-> "none", from |-> 0]
ServerIdle == [stage |-> "idle"]

----------------------------------------------------------------------------
(* Initial state: the first render and the mount effects have run.  In A   *)
(* the mount effect and the [word] effect have each called startCamera.    *)

Variants == {"A", "B"}

CardInit ==
    /\ variant \in Variants
    /\ mounted = TRUE
    /\ wordIdx \in 1..Len(words)
    /\ feedback = "idle"
    /\ isRecording = FALSE
    /\ videoFile = NoVideo
    /\ isReadyToSubmit = FALSE
    /\ countdown = NoCountdown
    /\ srcObject = NoStream
    /\ mediaRecorderRef = NoRecorder
    /\ chunksRef = <<>>
    /\ live = {}
    /\ pending = [camera |-> IF variant = "A" THEN 2 ELSE 0, record |-> 0,
                  wake |-> 1]
    /\ recorders = [i \in 1..MaxRecorders |-> FreeRecorder]
    /\ submissions = [i \in 1..MaxInFlight |-> FreeSubmission]
    /\ dialogOpen = FALSE
    /\ lastOp = "mount"
    /\ lastError = "none"

\* The card under test: the Learn page and the service stand still.
Init ==
    /\ CardInit
    /\ learn = LearnIdle
    /\ server = ServerIdle

----------------------------------------------------------------------------
(* User actions *)

\* next / previous on the Learn page: the word prop changes and the [word]
\* effect runs.
Navigate ==
    /\ CanClick
    /\ variant = "A" => RoomForStream(Cur)
    /\ \E next \in {handleNext(wordIdx), handlePrevious(wordIdx)} :
          wordIdx' = next
    /\ Commit(wordEffect(Cur), "wordChange")
    /\ UNCHANGED <<learn, server, variant, mounted, dialogOpen>>

\* "Upload Video": fileInputRef.current?.click() opens the file picker.
ClickUpload ==
    /\ CanClick
    /\ ShowsStartControls
    /\ dialogOpen' = TRUE
    /\ lastOp' = "clickUpload"
    /\ lastError' = "none"
    /\ UNCHANGED <<learn, server, variant, mounted, wordIdx, feedback, isRecording, videoFile,
                   isReadyToSubmit, countdown, srcObject, mediaRecorderRef,
                   chunksRef, live, pending, recorders, submissions>>

\* The picker closes: onChange={handleFileUpload} with or without a file.
FileChosen ==
    /\ mounted
    /\ dialogOpen
    /\ dialogOpen' = FALSE
    /\ \E hasFile \in BOOLEAN :
          Commit(handleFileUpload(Cur, hasFile), "handleFileUpload")
    /\ UNCHANGED <<learn, server, variant, mounted, wordIdx>>

\* "Start Recording"
ClickStartRecording ==
    /\ CanClick
    /\ ShowsStartControls
    /\ RoomForStream(Cur)
    /\ RoomForRecorder(Cur)
    /\ Commit(startRecordingCall(Cur), "startRecording")
    /\ UNCHANGED <<learn, server, variant, mounted, wordIdx, dialogOpen>>

\* "Stop Recording"
ClickStopRecording ==
    /\ CanClick
    /\ ShowsStop
    /\ Commit(stopRecording(Cur), "stopRecording")
    /\ UNCHANGED <<learn, server, variant, mounted, wordIdx, dialogOpen>>

\* "Re-record" / "Try Again"
ClickRetry ==
    /\ CanClick
    /\ ShowsRetry
    /\ variant = "A" => RoomForStream(Cur)
    /\ Commit(handleRetry(Cur), "handleRetry")
    /\ UNCHANGED <<learn, server, variant, mounted, wordIdx, dialogOpen>>

\* "Submit": videoFile && runInference(videoFile.blob)
ClickSubmit ==
    /\ CanClick
    /\ ShowsSubmit
    /\ videoFile # NoVideo
    /\ WordToId(word) # "" => RoomForSubmission(Cur)
    /\ Commit(runInferenceCall(Cur), "runInference")
    /\ UNCHANGED <<learn, server, variant, mounted, wordIdx, dialogOpen>>

\* The page is left: the component unmounts.  A's mount effect cleanup calls
\* stopCamera; whether videoRef.current is still set when it runs depends on
\* the React version.  B has no cleanup.
Unmount ==
    /\ CanClick
    /\ mounted' = FALSE
    /\ \E refStillSet \in BOOLEAN :
          LET s == IF variant = "A" /\ refStillSet THEN stopCamera(Cur) ELSE Cur
          IN  Commit([ClearReactState(s) EXCEPT !.srcObject = NoStream],
                     "unmount")
    /\ wordIdx' = 1
    /\ UNCHANGED <<learn, server, variant, dialogOpen>>

----------------------------------------------------------------------------
(* Callbacks *)

\* A pending getUserMedia promise settles and its continuation runs.
GetUserMediaSettles ==
    \E kind \in {"camera", "record"}, ok \in BOOLEAN :
        /\ pending[kind] > 0
        /\ LET s == [Cur EXCEPT !.pending[kind] = @ - 1]
           IN  IF kind = "camera"
               THEN Commit(startCameraResume(s, ok), "startCameraResume")
               ELSE Commit(startRecordingResume(s, ok), "startRecordingResume")
        /\ UNCHANGED <<learn, server, variant, mounted, wordIdx, dialogOpen>>

\* The warm-up request sent on mount settles.
WarmUpSettles ==
    \E outcome \in ProbeOutcomes :
        /\ pending.wake > 0
        /\ LET s == [Cur EXCEPT !.pending.wake = @ - 1]
           IN  Commit(wakeUpBackendResume(s, outcome), "wakeUpBackend")
        /\ UNCHANGED <<learn, server, variant, mounted, wordIdx, dialogOpen>>

\* The countdown interval of recorder i fires (it is cleared at count 0).
IntervalTick ==
    \E i \in 1..MaxRecorders :
        /\ recorders[i].count > 0
        /\ \E throws \in BOOLEAN :
              /\ throws => (recorders[i].count = 1
                            /\ recorders[i].stream \notin live)
              /\ Commit(intervalTick(Cur, i, throws), "intervalTick")
        /\ UNCHANGED <<learn, server, variant, mounted, wordIdx, dialogOpen>>

\* Recorder i finishes, after stop() or because its stream's tracks ended:
\* it delivers dataavailable and then stop.
RecorderStops ==
    \E i \in 1..MaxRecorders, nonEmpty \in BOOLEAN :
        /\ \/ recorders[i].rstate = "stopping"
           \/ recorders[i].rstate = "recording" /\ recorders[i].stream \notin live
        /\ Commit(onstop(ondataavailable(Cur, i, nonEmpty), i), "onstop")
        /\ UNCHANGED <<learn, server, variant, mounted, wordIdx, dialogOpen>>

\* The response of submission i arrives, with a 2xx status or another.
FetchResponse ==
    \E i \in 1..MaxInFlight, status \in Statuses :
        /\ submissions[i].stage = "fetch"
        /\ Commit(fetchResolved(Cur, i, status), "fetchResolved")
        /\ UNCHANGED <<learn, server, variant, mounted, wordIdx, dialogOpen>>

\* The request of submission i fails on the network.
FetchError ==
    \E i \in 1..MaxInFlight :
        /\ submissions[i].stage = "fetch"
        /\ Commit(fetchRejected(Cur, i), "fetchRejected")
        /\ UNCHANGED <<learn, server, variant, mounted, wordIdx, dialogOpen>>

\* The 120 s timer of submission i fires.
AbortTimer ==
    \E i \in 1..MaxInFlight :
        /\ submissions[i].timer
        /\ Commit(abortTimerFires(Cur, i), "abortTimer")
        /\ UNCHANGED <<learn, server, variant, mounted, wordIdx, dialogOpen>>

\* The body of the response of submission i has been read.
JsonSettles ==
    \E i \in 1..MaxInFlight, success \in BOOLEAN,
       predicted \in PredictedLabels, serverError \in ServerErrors :
        /\ submissions[i].stage = "json"
        /\ Commit(jsonResolved(Cur, i, success, predicted, serverError),
                  "jsonResolved")
        /\ UNCHANGED <<learn, server, variant, mounted, wordIdx, dialogOpen>>

Next ==
    \/ Navigate
    \/ ClickUpload
    \/ FileChosen
    \/ ClickStartRecording
    \/ ClickStopRecording
    \/ ClickRetry
    \/ ClickSubmit
    \/ Unmount
    \/ GetUserMediaSettles
    \/ WarmUpSettles
    \/ IntervalTick
    \/ RecorderStops
    \/ FetchResponse
    \/ FetchError
    \/ AbortTimer
    \/ JsonSettles

Spec == Init /\ [][Next]_vars

----------------------------------------------------------------------------
(* Submissions of uploaded clips, with the one progress guarantee the code *)
(* has: a timer that was set and not cleared fires (setTimeout).  When the *)
(* server answers, and whether it does, is left open.                      *)

NextUpload ==
    \/ Navigate
    \/ ClickUpload
    \/ FileChosen
    \/ ClickRetry
    \/ ClickSubmit
    \/ Unmount
    \/ GetUserMediaSettles
    \/ WarmUpSettles
    \/ FetchResponse
    \/ FetchError
    \/ AbortTimer
    \/ JsonSettles

SpecUpload == Init /\ [][NextUpload]_vars /\ WF_vars(AbortTimer)

----------------------------------------------------------------------------
(* The Learn page on its own, over its full word list: currentWordIndex    *)
(* starts anywhere (Math.random) and the two buttons move it.  What the    *)
(* card does on a word change is the matter of Navigate above.             *)

\* The state of the card, which neither the page model nor the service touches.
cardVars == <<variant, mounted, wordIdx, feedback, isRecording, videoFile,
              isReadyToSubmit, countdown, srcObject, mediaRecorderRef,
              chunksRef, live, pending, recorders, submissions, dialogOpen,
              lastOp, lastError>>

LearnRevisions == {1, 2}

LearnNext ==
    /\ learn' = [learn EXCEPT
                    !.currentWordIndex =
                        NextIndex(@, Len(LearnWords(learn.rev))),
                    !.lastNav = "next",
                    !.from = learn.currentWordIndex]
    /\ UNCHANGED <<cardVars, server>>

LearnPrevious ==
    /\ learn' = [learn EXCEPT
                    !.currentWordIndex =
                        PreviousIndex(@, Len(LearnWords(learn.rev))),
                    !.lastNav = "previous",
                    !.from = learn.currentWordIndex]
    /\ UNCHANGED <<cardVars, server>>

InitLearn ==
    /\ CardInit
    /\ variant = "B"
    /\ server = ServerIdle
    /\ \E rev \in LearnRevisions :
           \E start \in 0..(Len(LearnWords(rev)) - 1) :
               learn = [rev |-> rev, currentWordIndex |-> start,
                        lastNav |-> "none", from |-> start]

NextLearn ==
    \/ LearnNext
    \/ LearnPrevious

SpecLearn == InitLearn /\ [][NextLearn]_vars

----------------------------------------------------------------------------
(* The /predict service: feature extraction and classification.  Its code  *)
(* is not among the sources; it follows sections 4.5 and 4.6 of the        *)
(* specification document.                                                 *)

\* The shape of a pose tensor (channels x time steps x joints) and the
\* number of classes.
Channels == 3
TimeSteps == 32
Joints == 47
NumClasses == 67

\* The longest clip, in frames, that is tried.
MaxFrames == 40

Min(a, b) == IF a < b THEN a ELSE b

\* On which frames of a clip holistic detection succeeds.
DetectionPatterns == {"all", "none", "even", "first"}

Detected(pattern, k) ==
    CASE pattern = "all" -> TRUE
      [] pattern = "none" -> FALSE
      [] pattern = "even" -> k % 2 = 0
      [] pattern = "first" -> k = 1

\* The clips a request is drawn from: whether the clip decodes, its number
\* of frames, and the frames a person is detected on.
Clips ==
    [decodes : BOOLEAN, frames : 0..MaxFrames, detection : DetectionPatterns]

\* The landmarks detected on frame k: one coordinate per channel and joint
\* (a test motion that is not linear in k).
LandmarkFrame(k) ==
    [c \in 1..Channels |-> [j \in 1..Joints |-> k * k + c * j]]

\* Step 2: the frames of the clip on which detection succeeded, in order.
RetainedFrames(clip) ==
    LET kept == SelectSeq([k \in 1..clip.frames |-> k],
                          LAMBDA k : Detected(clip.detection, k))
    IN  [n \in 1..Len(kept) |-> LandmarkFrame(kept[n])]

\* Simple truncation: the first TimeSteps retained frames, fewer when the
\* clip is short.
resampleTruncate(retained) ==
    [c \in 1..Channels |->
        [t \in 1..Min(Len(retained), TimeSteps) |->
            [j \in 1..Joints |-> (TimeSteps - 1) * retained[t][c][j]]]]

\* Step 3: N >= 1 retained frames mapped onto TimeSteps evenly spaced steps
\* by linear interpolation between the two nearest frames.  Step t sits at
\* position (t - 1) * (N - 1) / (TimeSteps - 1) of the retained sequence;
\* coordinates are kept multiplied by TimeSteps - 1 so that they stay whole.
resample(retained) ==
    LET N == Len(retained)
        pos(t) == (t - 1) * (N - 1)
        lo(t) == pos(t) \div (TimeSteps - 1) + 1
        frac(t) == pos(t) % (TimeSteps - 1)
        hi(t) == Min(lo(t) + 1, N)
    IN  [c \in 1..Channels |->
            [t \in 1..TimeSteps |->
                [j \in 1..Joints |->
                    retained[lo(t)][c][j] * (TimeSteps - 1 - frac(t))
                        + retained[hi(t)][c][j] * frac(t)]]]

\* Feature extraction: decode, detect, resample.  (Step 4, normalisation,
\* rescales each coordinate and leaves the shape alone; it is left out.)
extract_features(clip) ==
    IF ~clip.decodes
    THEN [ok |-> FALSE, error |-> "CorruptVideo"]
    ELSE LET retained == RetainedFrames(clip)
         IN  IF Len(retained) = 0
             THEN [ok |-> FALSE, error |-> "NoPersonDetected"]
             ELSE [ok |-> TRUE, tensor |-> resample(retained)]

\* The class ids, and the output vectors the classifier is taken to produce:
\* score 1 everywhere except at two classes.
ClassIds == 0..(NumClasses - 1)
ScoreVectors ==
    {[k \in ClassIds |-> IF k = a THEN va ELSE IF k = b THEN vb ELSE 1] :
        a \in {0, 1, 33}, b \in {34, 66}, va \in 0..2, vb \in 0..2}

\* A scan in which a later class replaces the best one on an equal score.
RECURSIVE ArgmaxFromLastWins(_, _, _)
ArgmaxFromLastWins(v, k, best) ==
    IF k >= NumClasses THEN best
    ELSE IF v[k] >= v[best] THEN ArgmaxFromLastWins(v, k + 1, k)
                            ELSE ArgmaxFromLastWins(v, k + 1, best)

\* The argmax scan from class k upwards: class k replaces the best class so
\* far only with a strictly higher score.
RECURSIVE ArgmaxFrom(_, _, _)
ArgmaxFrom(v, k, best) ==
    IF k >= NumClasses THEN best
    ELSE IF v[k] > v[best] THEN ArgmaxFrom(v, k + 1, k)
                           ELSE ArgmaxFrom(v, k + 1, best)

\* Argmax over the output vector.
argmax(v) == ArgmaxFrom(v, 1, 0)

\* The service extracts the features of the clip it received.
ExtractFeatures ==
    /\ server.stage = "received"
    /\ server' = [stage |-> "extracted", clip |-> server.clip,
                  extraction |-> extract_features(server.clip)]
    /\ UNCHANGED <<cardVars, learn>>

\* The classifier consumes the tensor and yields an output vector, whose
\* argmax is the predicted class.
Classify ==
    /\ server.stage = "extracted"
    /\ server.extraction.ok
    /\ \E v \in ScoreVectors :
           server' = [stage |-> "classified", scores |-> v,
                      predicted_class |-> argmax(v)]
    /\ UNCHANGED <<cardVars, learn>>

\* The response: the predicted class, or success:false with the failure.
Respond ==
    /\ \/ /\ server.stage = "extracted"
          /\ ~server.extraction.ok
          /\ server' = [stage |-> "responded", success |-> FALSE,
                        error |-> server.extraction.error]
       \/ /\ server.stage = "classified"
          /\ server' = [stage |-> "responded", success |-> TRUE,
                        predicted_class |-> server.predicted_class]
    /\ UNCHANGED <<cardVars, learn>>

InitServer ==
    /\ CardInit
    /\ variant = "B"
    /\ learn = LearnIdle
    /\ server \in {[stage |-> "received", clip |-> c] : c \in Clips}

NextServer ==
    \/ ExtractFeatures
    \/ Classify
    \/ Respond

SpecServer == InitServer /\ [][NextServer]_vars

----------------------------------------------------------------------------
(* Properties of the capture state machine *)

TimersPending == {i \in 1..MaxRecorders : recorders[i].count > 0}
RecordersAlive == {i \in 1..MaxRecorders : recorders[i].rstate # "free"}
InFlight == {i \in 1..MaxInFlight : submissions[i].stage \in {"fetch", "json"}}

\* C1: a word change resets the session to Idle: right after it feedback
\* is idle, there is no clip, isRecording and isReadyToSubmit are false and
\* no countdown value is shown, whatever the state before.
C1_WordChangeResets ==
    lastOp = "wordChange" =>
        /\ feedback = "idle"
        /\ videoFile = NoVideo
        /\ ~isRecording
        /\ ~isReadyToSubmit
        /\ countdown = NoCountdown

\* C1 witness: the word has just changed while a submission was in flight
\* and a countdown interval was still running.
C1_Witness ==
    /\ lastOp = "wordChange"
    /\ InFlight # {}
    /\ TimersPending # {}

\* C2: a word change cancels the pending countdown timer, and no tick of
\* an earlier countdown starts the recorder or sets the session to
\* Recording.  Right after the word change no new countdown exists, so a
\* tick that follows it at once is one of an earlier countdown.
C2_WordChangeCancelsCountdown ==
    [][/\ lastOp' = "wordChange" => TimersPending' = {}
       /\ (lastOp = "wordChange" /\ lastOp' = "intervalTick")
              => (~isRecording' /\ \A i \in 1..MaxRecorders :
                                       recorders'[i].rstate # "recording")]_vars

\* C3: after a word change during Processing the response or the timeout
\* of the earlier submission applies no transition: the session stays Idle.
C3_NoStaleResultAfterWordChange ==
    [][(lastOp = "wordChange"
        /\ lastOp' \in {"fetchResolved", "fetchRejected", "abortTimer",
                        "jsonResolved"})
          => feedback' = "idle"]_vars

\* C4: isReadyToSubmit is false whenever a countdown value is shown or
\* isRecording is true.
C4_ReadyExcludesCountdownAndRecording ==
    (countdown # NoCountdown \/ isRecording) => ~isReadyToSubmit

\* C5: a shown countdown, isRecording and feedback in {processing, correct,
\* incorrect} are pairwise exclusive.
C5_OneActiveState ==
    /\ ~(countdown # NoCountdown /\ isRecording)
    /\ ~(countdown # NoCountdown /\ feedback # "idle")
    /\ ~(isRecording /\ feedback # "idle")

\* C6: at most one countdown timer is pending and at most one MediaRecorder
\* is created and not finished.
C6_NoConcurrentRecordings ==
    /\ Cardinality(TimersPending) <= 1
    /\ Cardinality(RecordersAlive) <= 1

\* C7: at most one camera stream is live at any time.
C7_OneLiveStream == Cardinality(live) <= 1

\* C8: while the session is ReadyToSubmit, Processing, Correct or Incorrect
\* no camera stream is live.
C8_NoCameraOutsideCapture ==
    (mounted /\ (isReadyToSubmit \/ feedback # "idle")) => live = {}

\* C9: when a word change completes, the stream the video element held
\* before it has been released (its tracks are stopped).
C9_WordChangeReleasesCamera ==
    [][(lastOp' = "wordChange" /\ srcObject # NoStream)
          => srcObject \notin live']_vars

\* C10: Re-record from ReadyToSubmit leaves the session Idle without a clip
\* and with no camera stream held by the video element.
C10_RetryDiscardsAndReleases ==
    [][(isReadyToSubmit /\ lastOp' = "handleRetry")
          => /\ feedback' = "idle"
             /\ videoFile' = NoVideo
             /\ ~isReadyToSubmit'
             /\ srcObject' = NoStream]_vars

\* C11: unmounting the card, in any state, releases the camera stream the
\* video element holds: after the unmount its tracks are stopped.
C11_UnmountReleasesCamera ==
    [][(mounted /\ ~mounted' /\ srcObject # NoStream)
          => srcObject \notin live']_vars

\* C12: camera release is idempotent.  In every reachable state, releasing
\* twice (stopCamera of A, the release inside resetState of B) gives the
\* state one release gives, and releasing while the video element holds no
\* stream changes nothing (resetState then only clears the React state) and
\* raises no error.
C12_ReleaseIdempotent ==
    /\ stopCamera(stopCamera(Cur)) = stopCamera(Cur)
    /\ resetStateB(resetStateB(Cur)) = resetStateB(Cur)
    /\ srcObject = NoStream =>
          /\ stopCamera(Cur) = Cur
          /\ resetStateB(Cur) = ClearReactState(Cur)
    /\ stopCamera(Cur).error = "none"
    /\ resetStateB(Cur).error = "none"

\* C12 witness: the video element holds a live stream while a recorder runs
\* on it, so the first release stops tracks and the second finds nothing.
C12_Witness ==
    /\ mounted
    /\ srcObject \in live
    /\ isRecording
    /\ stopCamera(Cur) # Cur
    /\ stopCamera(Cur).srcObject = NoStream

\* C13: a recorder is created with its countdown at 3; each tick of its
\* interval lowers the count by one and shows 2, then 1; the tick that
\* reaches 0 (the third) clears the display and starts the recorder on a
\* stream that is still live, setting isRecording; a recorder is started by
\* no other step, and once it has been started its interval never ticks
\* again.
C13_CountdownThenRecord ==
    [][\A i \in 1..MaxRecorders :
          LET r == recorders[i]
              r2 == recorders'[i]
          IN  /\ (r.rstate = "free" /\ r2.rstate # "free") =>
                    /\ r2.count = CountdownStart
                    /\ r2.rstate = "inactive"
                    /\ mounted => countdown' = CountdownStart
              /\ (r.rstate # "free" /\ r2.count # r.count) =>
                    /\ r.rstate = "inactive"
                    /\ r2.count = r.count - 1
                    /\ r2.count > 0 =>
                          /\ r2.rstate = "inactive"
                          /\ mounted => countdown' = r2.count
                    /\ r2.count = 0 =>
                          /\ mounted => countdown' = NoCountdown
                          /\ r.stream \in live =>
                                /\ r2.rstate = "recording"
                                /\ mounted => isRecording'
              /\ (r.rstate = "inactive" /\ r2.rstate = "recording") =>
                    (r.count = 1 /\ r2.count = 0)
              /\ r.rstate \in {"recording", "stopping"} =>
                    (r.count = 0 /\ r2.count = 0)]_vars

\* C13 witness: the third tick has just started a recorder: the session is
\* Recording, the display is cleared and the interval is gone.
C13_Witness ==
    /\ lastOp = "intervalTick"
    /\ isRecording
    /\ countdown = NoCountdown
    /\ TimersPending = {}
    /\ \E i \in 1..MaxRecorders :
          recorders[i].rstate = "recording" /\ recorders[i].stream \in live

\* C14: submitting while the current word has no entry in the vocabulary
\* table sends no request (the submissions in flight are the ones that were
\* there before) and leaves the session Incorrect with the unmapped-word
\* error notice.
C14_UnmappedWordShortCircuits ==
    [][(lastOp' = "runInference" /\ WordToId(word) = "")
          => /\ submissions' = submissions
             /\ feedback' = "incorrect"
             /\ lastError' = "unmapped"]_vars

\* C14 witness: Submit has just been pressed for the word "meat", which
\* the table of revision A does not hold.
C14_Witness ==
    /\ lastOp = "runInference"
    /\ WordToId(word) = ""
    /\ word = "meat"
    /\ feedback = "incorrect"
    /\ lastError = "unmapped"

\* C15: whenever a submission awaits its response body, for every predicted
\* label a successful response can carry, handling it leaves feedback
\* Correct exactly when the label equals, as a string, the table's id of the
\* word the submission was made for, and Incorrect otherwise: "1" is
\* Correct for "hi", "01" and "3" are not, and "3" is not the id of "name".
C15_CorrectIffLabelsEqual ==
    /\ WordToId("name") = "11"
    /\ \A i \in 1..MaxInFlight :
          submissions[i].stage = "json" =>
              LET w == words[submissions[i].word]
              IN  /\ WordToId(w) # ""
                  /\ \A p \in PredictedLabels :
                        jsonResolved(Cur, i, TRUE, p, "").feedback =
                            IF p = WordToId(w) THEN "correct" ELSE "incorrect"
                  /\ w = "hi" =>
                        /\ jsonResolved(Cur, i, TRUE, "1", "").feedback = "correct"
                        /\ jsonResolved(Cur, i, TRUE, "01", "").feedback = "incorrect"
                        /\ jsonResolved(Cur, i, TRUE, "3", "").feedback = "incorrect"

\* C15 witness: a successful response for "hi" has just been handled and
\* the session is Correct.
C15_Witness ==
    /\ lastOp = "jsonResolved"
    /\ word = "hi"
    /\ feedback = "correct"
    /\ lastError = "none"
    /\ InFlight = {}

\* C16: every failed submission ends Incorrect with an error notice, never
\* Correct.  A request that leaves the fetch without a readable response
\* (network error, abort by the timer, non-2xx status) sets feedback to
\* incorrect in that step, and so does a response body with success:false
\* (or one that does not parse) for every submission awaiting its body; the
\* failure is handled by the catch block, which ends the call.
C16_FailuresEndIncorrect ==
    [][\A i \in 1..MaxInFlight :
          /\ (mounted /\ submissions[i].stage = "fetch"
              /\ submissions'[i].stage \notin {"fetch", "json"}) =>
                 /\ feedback' = "incorrect"
                 /\ lastError' \in {"timeout", "prediction"}
                 /\ lastOp' \in {"fetchResolved", "fetchRejected", "abortTimer"}
          /\ submissions[i].stage = "json" =>
                 \A p \in PredictedLabels :
                     LET s == jsonResolved(Cur, i, FALSE, p, "")
                     IN  /\ s.feedback = "incorrect"
                         /\ s.error = "prediction"
                         /\ s.submissions[i].stage = "free"]_vars

\* C16 witness: a request failed on the network while the session was
\* Processing and the session is Incorrect now.
C16_Witness ==
    /\ lastOp = "fetchRejected"
    /\ feedback = "incorrect"
    /\ lastError = "prediction"
    /\ InFlight = {}
    /\ isReadyToSubmit

\* C17: when the 120 s timer of a submission fires while its request still
\* waits for the response, the request is aborted (it is no longer in
\* flight), the session is Incorrect and the notice is the timeout notice;
\* no other failure raises the timeout notice.
C17_TimeoutAbortsAndReports ==
    [][/\ \A i \in 1..MaxInFlight :
             (mounted /\ lastOp' = "abortTimer"
              /\ submissions[i].stage = "fetch"
              /\ submissions'[i] # submissions[i]) =>
                 /\ submissions'[i] = FreeSubmission
                 /\ feedback' = "incorrect"
                 /\ lastError' = "timeout"
       /\ (mounted /\ lastOp' # "abortTimer") => lastError' # "timeout"]_vars

\* C17 witness: the timer has just fired on a waiting request; the session
\* is Incorrect with the timeout notice and nothing is in flight.
C17_Witness ==
    /\ lastOp = "abortTimer"
    /\ lastError = "timeout"
    /\ feedback = "incorrect"
    /\ InFlight = {}

\* C18: whenever the session is Incorrect the card renders Re-record / Try
\* Again or the Upload Video and Start Recording buttons; from Incorrect,
\* a retry leaves the start controls rendered, an upload with a file leaves
\* a clip and the Submit button, and Start Recording leaves a capture under
\* way (camera requested, session Idle).
C18_RetryAfterFailure ==
    [][/\ (mounted /\ feedback = "incorrect") =>
             (ShowsRetry \/ ShowsStartControls)
       /\ (feedback = "incorrect" /\ lastOp' = "handleRetry") =>
             (ShowsStartControls' /\ feedback' = "idle")
       /\ (feedback = "incorrect" /\ lastOp' = "handleFileUpload") =>
             \/ ShowsSubmit' /\ videoFile' = UploadedFile /\ feedback' = "idle"
             \/ UNCHANGED <<feedback, videoFile, isReadyToSubmit>>
       /\ (feedback = "incorrect" /\ lastOp' = "startRecording") =>
             (pending'.record > 0 /\ feedback' = "idle")]_vars

\* C18 witness: a submission has just failed; the session is Incorrect and
\* the retry control is rendered.
C18_Witness ==
    /\ mounted
    /\ feedback = "incorrect"
    /\ lastError \in {"prediction", "timeout"}
    /\ lastOp \in {"fetchResolved", "fetchRejected", "abortTimer", "jsonResolved"}
    /\ ShowsRetry

\* C19: once runInference has finished, by whatever path, the abort timer
\* it created is no longer pending.
C19_TimerClearedWhenDone ==
    \A i \in 1..MaxInFlight :
        submissions[i].stage = "settled" => ~submissions[i].timer

\* C20: when the camera acquisition of a start request fails (the
\* continuation of startRecording runs and no new stream has come to life),
\* the session is Idle with the camera error notice: no countdown is shown,
\* no recorder has been created and the video element holds no stream.
C20_CameraFailureResets ==
    [][(mounted /\ lastOp' = "startRecordingResume" /\ live' \subseteq live)
          => /\ feedback' = "idle"
             /\ ~isRecording'
             /\ countdown' = NoCountdown
             /\ recorders' = recorders
             /\ srcObject' = NoStream
             /\ lastError' = "camera"]_vars

\* C21: when the word changes while the camera acquisition of a start
\* request is pending, the completion of that acquisition right after the
\* change shows no countdown, creates no recorder and brings no stream to
\* life.
C21_NoStaleAcquisitionAfterWordChange ==
    [][(lastOp = "wordChange" /\ lastOp' = "startRecordingResume")
          => /\ countdown' = NoCountdown
             /\ RecordersAlive' \subseteq RecordersAlive
             /\ live' \subseteq live]_vars

\* C22: after a reset (word change or retry) the stop notification of a
\* recorder started before it attaches no clip and does not make the
\* session ReadyToSubmit.
C22_NoStaleClipAfterReset ==
    [][(lastOp \in {"wordChange", "handleRetry"} /\ lastOp' = "onstop")
          => (videoFile' = NoVideo /\ ~isReadyToSubmit')]_vars

\* C23: the submit action runs only from ReadyToSubmit with feedback idle
\* and moves the session to Processing; while the session is Processing,
\* Correct or Incorrect the Submit control is not available, and at most
\* one submission is in flight.
C23_SubmitOnlyFromReady ==
    [][/\ (mounted /\ feedback # "idle") =>
             ~(ShowsSubmit /\ videoFile # NoVideo)
       /\ lastOp' = "runInference" =>
             /\ isReadyToSubmit
             /\ feedback = "idle"
             /\ WordToId(word) # "" => feedback' = "processing"
       /\ Cardinality(InFlight) <= 1]_vars

\* C24: choosing a file in the picker, whatever the session state, gives
\* ReadyToSubmit with the uploaded file as clip, feedback idle, nothing
\* recording and no countdown shown, and sends nothing; a request appears
\* only in a step of the submit action.
C24_UploadMakesReady ==
    [][/\ (mounted /\ dialogOpen) =>
             LET s == handleFileUpload(Cur, TRUE)
             IN  /\ s.videoFile = UploadedFile
                 /\ s.isReadyToSubmit
                 /\ s.feedback = "idle"
                 /\ ~s.isRecording
                 /\ s.countdown = NoCountdown
                 /\ s.submissions = submissions
                 /\ s.error = "none"
       /\ lastOp' = "handleFileUpload" =>
             /\ submissions' = submissions
             /\ videoFile' \in {UploadedFile, videoFile}
             /\ videoFile' = UploadedFile => (isReadyToSubmit' /\ feedback' = "idle")
       /\ \A i \in 1..MaxInFlight :
             (submissions[i].stage = "free" /\ submissions'[i].stage # "free")
                => lastOp' = "runInference"]_vars

\* C24 witness: a file has just been chosen while the session was not
\* ReadyToSubmit; the session holds the uploaded file, is ReadyToSubmit
\* with feedback idle, and nothing is in flight.
C24_Witness ==
    /\ lastOp = "handleFileUpload"
    /\ videoFile = UploadedFile
    /\ isReadyToSubmit
    /\ feedback = "idle"
    /\ InFlight = {}

\* C25: when the stop notification of a recorder is handled, isRecording is
\* false, isReadyToSubmit is true, the clip is the blob finalized from that
\* recorder's stop, and the stream the recorder ran on has been released.
C25_StopMakesReadyAndReleases ==
    [][\A i \in 1..MaxRecorders :
          (mounted /\ lastOp' = "onstop"
           /\ recorders[i].rstate # "free" /\ recorders'[i].rstate = "free")
             => /\ ~isRecording'
                /\ isReadyToSubmit'
                /\ videoFile'.kind = "recorded"
                /\ videoFile'.by = i
                /\ recorders[i].stream \notin live']_vars

\* C26: the Stop action calls stop() only on a recorder that has been
\* started and not stopped before; it never reaches a recorder that still
\* waits for its countdown or one that has been stopped already.
C26_StopOnlyStartedRecorder ==
    [][lastOp' = "stopRecording"
          => /\ mediaRecorderRef # NoRecorder
             /\ recorders[mediaRecorderRef].rstate = "recording"]_vars

\* The two label views of a table round-trip and no two entries share a
\* word or an id.
RoundTrips(table) ==
    LET view == ID_TO_WORD_MAP(table)
    IN  /\ \A k \in 1..Len(table) :
              Lookup(view, Lookup(table, table[k][1])) = table[k][1]
        /\ \A k \in 1..Len(view) :
              Lookup(table, Lookup(view, view[k][1])) = view[k][1]
        /\ \A j, k \in 1..Len(table) :
              j # k => (table[j][2] # table[k][2] /\ table[j][1] # table[k][1])

RoundTripsA == RoundTrips(WORD_TO_ID_MAP_A)
RoundTripsB == RoundTrips(WORD_TO_ID_MAP_B)

\* C27: on the shipped table of the running revision the two label views
\* round-trip: every word of the table is the word its id resolves to,
\* every id of the id -> word view is the id of the word it resolves to,
\* and no two words share an id.
C27_LabelViewsRoundTrip ==
    IF variant = "A" THEN RoundTripsA ELSE RoundTripsB

\* C27 witness: a mismatch has just been reported for a mapped word; its
\* notice names the predicted and the expected word through the id -> word
\* view, and the expected word resolves back to the displayed word.
C27_Witness ==
    /\ lastOp = "jsonResolved"
    /\ lastError = "mismatch"
    /\ WordToId(word) # ""
    /\ Lookup(ID_TO_WORD_MAP(WORD_TO_ID_MAP), WordToId(word)) = word

\* C28: building the id -> word view from a table in which two words share
\* an id fails: for the shipped table extended by a word "hello" carrying
\* the id of an existing word, no view comes out that resolves the shared
\* id to one of the two words.
C28_SharedIdFailsFast ==
    \A k \in 1..Len(WORD_TO_ID_MAP) :
        LET id == WORD_TO_ID_MAP[k][2]
            table == Append(WORD_TO_ID_MAP, <<"hello", id>>)
        IN  Lookup(ID_TO_WORD_MAP(table), id) \notin {"hello", WORD_TO_ID_MAP[k][1]}

\* C29: when the warm-up request settles, with a 2xx response, another
\* status or no connection, the capture session is as before (feedback,
\* clip, isRecording, isReadyToSubmit, countdown, camera, recorders,
\* submissions) and no error notice is raised.
C29_WarmUpChangesNothing ==
    [][lastOp' = "wakeUpBackend"
          => /\ UNCHANGED <<feedback, videoFile, isRecording, isReadyToSubmit,
                            countdown, srcObject, mediaRecorderRef, chunksRef,
                            live, recorders, submissions, wordIdx>>
             /\ lastError' = "none"]_vars

\* C29 witness: the warm-up request has just settled while a submission
\* was being processed.
C29_Witness ==
    /\ lastOp = "wakeUpBackend"
    /\ pending.wake = 0
    /\ feedback = "processing"
    /\ InFlight # {}

\* C30: the response is classified in order.  A response whose status is
\* not 2xx ends the submission at once with an error that carries the status
\* code: its body is never read (the submission does not reach the json
\* stage) and feedback is incorrect with the prediction notice, not a
\* mismatch.  A 2xx response goes on to its body, and a body with
\* success:false ends the submission with an error that carries the
\* server's message (or "Prediction failed."): the outcome is the same
\* whatever predicted_class is, the expected label included.
C30_ClassificationOrdered ==
    \A i \in 1..MaxInFlight :
        /\ submissions[i].stage = "fetch" =>
               \A status \in Statuses :
                   LET r == fetchResolved(Cur, i, status)
                   IN  IF ResponseOk(status)
                       THEN /\ r.submissions[i].stage = "json"
                            /\ r.feedback = feedback
                            /\ r.logged = NoError
                       ELSE /\ r.submissions[i].stage # "json"
                            /\ r.feedback = "incorrect"
                            /\ r.error = "prediction"
                            /\ r.logged.name = "Error"
                            /\ r.logged.message = <<"Request failed: ", status>>
        /\ submissions[i].stage = "json" =>
               \A serverError \in ServerErrors, p \in PredictedLabels :
                   LET r == jsonResolved(Cur, i, FALSE, p, serverError)
                       expected == WordToId(words[submissions[i].word])
                   IN  /\ r = jsonResolved(Cur, i, FALSE, expected, serverError)
                       /\ r.feedback = "incorrect"
                       /\ r.error = "prediction"
                       /\ r.logged.name = "Error"
                       /\ r.logged.message =
                              <<IF serverError = "" THEN "Prediction failed."
                                                    ELSE serverError>>

\* A response with a status other than 2xx has just ended a submission of
\* the displayed word.
C30_Witness ==
    /\ lastOp = "fetchResolved"
    /\ lastError = "prediction"
    /\ feedback = "incorrect"
    /\ InFlight = {}
    /\ mounted

----------------------------------------------------------------------------
(* Properties of the service, of the word list and of submissions *)

\* The number of frames of a clip on which a person is detected.
UsableFrames(clip) ==
    Cardinality({k \in 1..clip.frames : Detected(clip.detection, k)})

\* C31: feature extraction either returns a pose tensor that is complete,
\* with exactly Channels x TimeSteps x Joints entries whatever the number
\* N >= 1 of retained frames (below, at or above TimeSteps), beginning at
\* the first retained frame and ending at the last, or it fails and returns
\* no tensor at all; a clip that decodes with no usable frame fails with
\* NoPersonDetected, one that does not decode with CorruptVideo.
C31_TensorCompleteOrFailure ==
    server.stage = "extracted" =>
        LET clip == server.clip
            e == server.extraction
            N == UsableFrames(clip)
            retained == RetainedFrames(clip)
        IN  /\ e.ok <=> (clip.decodes /\ N >= 1)
            /\ ~clip.decodes => e = [ok |-> FALSE, error |-> "CorruptVideo"]
            /\ (clip.decodes /\ N = 0) =>
                   e = [ok |-> FALSE, error |-> "NoPersonDetected"]
            /\ e.ok =>
                   /\ DOMAIN e.tensor = 1..Channels
                   /\ \A c \in 1..Channels :
                          /\ DOMAIN e.tensor[c] = 1..TimeSteps
                          /\ \A t \in 1..TimeSteps :
                                 /\ DOMAIN e.tensor[c][t] = 1..Joints
                                 /\ \A j \in 1..Joints :
                                        e.tensor[c][t][j] \in Int
                          /\ \A j \in 1..Joints :
                                 /\ e.tensor[c][1][j] =
                                        (TimeSteps - 1) * retained[1][c][j]
                                 /\ e.tensor[c][TimeSteps][j] =
                                        (TimeSteps - 1) * retained[N][c][j]

\* Extraction has returned a tensor for a clip with more usable frames than
\* time steps.
C31_Witness ==
    /\ server.stage = "extracted"
    /\ server.extraction.ok
    /\ UsableFrames(server.clip) > TimeSteps

\* C32: the predicted class is an argmax of the output vector of NumClasses
\* entries (no class scores higher), and when several classes share the
\* maximum it is the lowest of them (every lower class scores strictly
\* less), so the prediction is determined by the output vector.
C32_ArgmaxLowestIdOnTies ==
    server.stage = "classified" =>
        LET v == server.scores
            p == server.predicted_class
        IN  /\ DOMAIN v = ClassIds
            /\ Cardinality(DOMAIN v) = NumClasses
            /\ p \in ClassIds
            /\ \A k \in ClassIds : v[k] <= v[p]
            /\ \A k \in ClassIds : k < p => v[k] < v[p]

\* A vector in which a class other than the lowest and the highest class
\* shares the maximum with a later class has been classified.
C32_Witness ==
    /\ server.stage = "classified"
    /\ server.predicted_class = 1
    /\ \E k \in ClassIds :
           /\ k > 1
           /\ server.scores[k] = server.scores[1]

\* C33: every submission terminates.  Once the mounted card is Processing,
\* it eventually shows Correct or Incorrect (or the session is ended by a
\* word change or by leaving the page), even if the server never completes
\* its response, provided the timeout timer fires when it is armed.
C33_EverySubmissionTerminates ==
    (mounted /\ feedback = "processing")
        ~> (feedback \in {"correct", "incorrect", "idle"} \/ ~mounted)

\* A submission that still awaits its response or the body of it.
Awaiting(sub) == sub.stage \in {"fetch", "json"}

\* C34: each submission applies one terminal outcome.  A response that is
\* processed disarms the timer of its submission, and a timer that fires on
\* a submission that no longer awaits anything changes neither feedback nor
\* the clip; a timer that fires on a waiting request ends the submission,
\* so that no response is processed for it afterwards; and a submission
\* whose outcome has been applied never awaits again.
C34_OneTerminalOutcome ==
    [][\A i \in 1..MaxInFlight :
          LET sub == submissions[i]
              after == submissions'[i]
          IN  /\ (sub.timer /\ ~after.timer /\ ~Awaiting(sub)) =>
                     /\ feedback' = feedback
                     /\ videoFile' = videoFile
                     /\ isReadyToSubmit' = isReadyToSubmit
              /\ (sub.timer /\ ~after.timer /\ sub.stage = "fetch"
                  /\ after.stage # "json") => after = FreeSubmission
              /\ (Awaiting(sub) /\ lastOp' \in {"fetchResolved", "jsonResolved"}
                  /\ after # sub) => ~after.timer
              /\ (sub.stage = "settled") => ~Awaiting(after)]_vars

\* The timer of a submission that a network failure had already ended has
\* just fired, after the user had gone back to Idle.
C34_Witness ==
    /\ mounted
    /\ lastOp = "abortTimer"
    /\ lastError = "none"
    /\ feedback = "idle"
    /\ \A i \in 1..MaxInFlight : submissions[i] = FreeSubmission

\* C35: in every state of the mounted card isReadyToSubmit is true exactly
\* when a clip is present (videoFile is not null).
C35_ReadyIffClip ==
    mounted => (isReadyToSubmit <=> videoFile # NoVideo)

\* The mounted card holds a clip that a recording produced and offers it
\* for submission.
C35_Witness ==
    /\ mounted
    /\ isReadyToSubmit
    /\ videoFile.kind = "recorded"
    /\ lastOp = "onstop"

\* The recorders that can finish in this state.
CanFinish ==
    {i \in 1..MaxRecorders :
        \/ recorders[i].rstate = "stopping"
        \/ recorders[i].rstate = "recording" /\ recorders[i].stream \notin live}

\* C36: the clip finalized when recorder i stops holds the data chunk that
\* this recorder delivered, if it delivered one, and nothing else: no chunk
\* of another recorder is in it and its own chunk is not lost.
C36_ClipHoldsOwnChunksOnly ==
    \A i \in CanFinish, nonEmpty \in BOOLEAN :
        LET clip == onstop(ondataavailable(Cur, i, nonEmpty), i).videoFile
        IN  /\ clip.by = i
            /\ clip.chunks = IF nonEmpty THEN <<i>> ELSE <<>>

\* C37: a result is shown for the word it was judged against: whenever the
\* outcome of a submission is applied to the mounted card, the word that
\* submission was made for is the word displayed.
C37_ResultForDisplayedWord ==
    [][\A i \in 1..MaxInFlight :
          (/\ mounted
           /\ Awaiting(submissions[i])
           /\ ~Awaiting(submissions'[i])
           /\ lastOp' \in {"fetchResolved", "fetchRejected", "abortTimer",
                           "jsonResolved"}
           /\ feedback' \in {"correct", "incorrect"})
              => submissions[i].word = wordIdx]_vars

\* C38: every word of the Learn page's list has an entry in the table the
\* card looks words up in, and the unmapped-word failure never happens.
C38_EveryLearnWordMapped ==
    /\ \A k \in 1..Len(LearnWords1) :
           Lookup(WORD_TO_ID_MAP, LearnWords1[k]) # ""
    /\ lastError # "unmapped"

\* C39: the index of the Learn page stays within 0..words.length-1; next
\* and previous move it by one and wrap around at the two ends; and next
\* followed by previous, or previous followed by next, leads back.
C39_NavigationWraps ==
    learn.rev \in LearnRevisions =>
        LET n == Len(LearnWords(learn.rev))
            i == learn.currentWordIndex
        IN  /\ i \in 0..(n - 1)
            /\ NextIndex(i, n) = IF i = n - 1 THEN 0 ELSE i + 1
            /\ PreviousIndex(i, n) = IF i = 0 THEN n - 1 ELSE i - 1
            /\ PreviousIndex(NextIndex(i, n), n) = i
            /\ NextIndex(PreviousIndex(i, n), n) = i
            /\ learn.lastNav = "next" =>
                   /\ i = NextIndex(learn.from, n)
                   /\ PreviousIndex(i, n) = learn.from
            /\ learn.lastNav = "previous" =>
                   /\ i = PreviousIndex(learn.from, n)
                   /\ NextIndex(i, n) = learn.from

\* Previous has just been pressed on the first word of the long list: the
\* index is that of the last word.
C39_Witness ==
    /\ learn.rev = 2
    /\ learn.lastNav = "previous"
    /\ learn.from = 0
    /\ learn.currentWordIndex = Len(LearnWords2) - 1

====
